---- MODULE Spec2Model ----
(***************************************************************************)
(* State-machine model of the 3D massing viewer (App, MassingScene,        *)
(* ComparisonView, InfoPanel, BuildingMesh/FloorMesh, ZoningEnvelope).     *)
(*                                                                         *)
(* Lengths are integers in hundredths of a foot (15 ft = 1500), so that    *)
(* FLOOR_GAP = 0.3 ft and FLOOR_GAP / 2 = 0.15 ft are exact.               *)
(***************************************************************************)
EXTENDS Integers, Sequences, FiniteSets, TLC

\* ------------------------------------------------------------------ bounds
\* Pointer events are delivered to the first MaxPointerFloor floors of a
\* building only (floor indices 1..MaxPointerFloor).
MaxPointerFloor == 2

\* --------------------------------------------------------------- encodings
\* JavaScript undefined / null for an optional number.
Undefined == -1000000

Ft(n) == n * 100

\* JavaScript `v || d` on an optional number: undefined, null and 0 are falsy.
OrDefault(v, d) == IF v = Undefined \/ v = 0 THEN d ELSE v

\* null floor reference (useState(null))
NoFloor == [payload |-> "null", scenario |-> 0, floor |-> 0]

\* massingData === null
NoPayload == "null"

\* error === null
NoError == "null"

\* URL has no ?scenario= parameter
NoName == <<>>

\* ------------------------------------------------------------ string model
\* Names are sequences of words; toLowerCase acts word by word.
ToLowerWord(w) ==
  CASE w = "Demo" -> "demo"
    [] w = "Max" -> "max"
    [] w = "Residential" -> "residential"
    [] w = "Commercial" -> "commercial"
    [] w = "Community" -> "community"
    [] w = "Facility" -> "facility"
    [] OTHER -> w

ToLowerCase(s) == [i \in 1..Len(s) |-> ToLowerWord(s[i])]

\* String.prototype.includes: needle occurs contiguously in hay
Includes(hay, needle) ==
  \E off \in 0..(Len(hay) - Len(needle)) :
    \A i \in 1..Len(needle) : hay[off + i] = needle[i]

\* ----------------------------------------------------------------- payloads
NoEnvelope ==
  [present |-> FALSE, max_height_ft |-> Undefined,
   base_height_max_ft |-> Undefined, setback_line |-> <<>>,
   sky_exposure_plane |-> [present |-> FALSE, start_height |-> Undefined,
                           slope |-> Undefined, ratio |-> Undefined]]

NoSep ==
  [present |-> FALSE, start_height |-> Undefined,
   slope |-> Undefined, ratio |-> Undefined]

NoBulkhead ==
  [present |-> FALSE, footprint |-> <<>>, height_ft |-> Undefined,
   elevation_ft |-> Undefined]

Rect(x0, z0, x1, z1) == << <<x0, z0>>, <<x1, z0>>, <<x1, z1>>, <<x0, z1>> >>

\* getDemoData: lotW = 50, lotD = 100, rearYard = 30
lotW == Ft(50)
lotD == Ft(100)
rearYard == Ft(30)
bldgW == lotW
bldgD == lotD - rearYard
lotPoly == Rect(0, 0, lotW, lotD)
basePoly == Rect(0, 0, bldgW, bldgD)
setbackPoly == Rect(Ft(10), 0, bldgW, bldgD)

\* areas in square feet
SqFt(w, d) == (w \div 100) * (d \div 100)

DemoGroundFloor ==
  [floor_num |-> 1, use |-> "commercial", elevation_ft |-> 0,
   height_ft |-> Ft(15), footprint |-> basePoly,
   gross_area_sf |-> SqFt(bldgW, bldgD),
   net_area_sf |-> (SqFt(bldgW, bldgD) * 82) \div 100]

DemoBaseFloor(i) ==
  [floor_num |-> i, use |-> "residential",
   elevation_ft |-> Ft(15) + (i - 2) * Ft(10),
   height_ft |-> Ft(10), footprint |-> basePoly,
   gross_area_sf |-> SqFt(bldgW, bldgD),
   net_area_sf |-> (SqFt(bldgW, bldgD) * 82) \div 100]

\* variant: the setback floors stand one storey higher
DemoSetbackFloorShifted(i) ==
  [floor_num |-> i, use |-> "residential",
   elevation_ft |-> Ft(15) + (i - 1) * Ft(10),
   height_ft |-> Ft(10), footprint |-> setbackPoly,
   gross_area_sf |-> SqFt(bldgW - Ft(10), bldgD),
   net_area_sf |-> (SqFt(bldgW - Ft(10), bldgD) * 82) \div 100]

DemoSetbackFloor(i) ==
  [floor_num |-> i, use |-> "residential",
   elevation_ft |-> Ft(15) + (i - 2) * Ft(10),
   height_ft |-> Ft(10), footprint |-> setbackPoly,
   gross_area_sf |-> SqFt(bldgW - Ft(10), bldgD),
   net_area_sf |-> (SqFt(bldgW - Ft(10), bldgD) * 82) \div 100]

DemoFloors ==
  <<DemoGroundFloor>>
    \o [k \in 1..5 |-> DemoBaseFloor(k + 1)]
    \o [k \in 1..2 |-> DemoSetbackFloor(k + 6)]

DemoLot == [polygon |-> lotPoly, frontage_ft |-> lotW, depth_ft |-> lotD]

getDemoData ==
  [lot |-> DemoLot,
   scenarios |-> <<
     [name |-> <<"Demo", "Max", "Residential">>,
      floors |-> DemoFloors,
      bulkhead |-> [present |-> TRUE,
                    footprint |-> Rect(Ft(15), Ft(20), Ft(35), Ft(50)),
                    height_ft |-> Ft(15), elevation_ft |-> Ft(85)],
      zoning_envelope |->
        [present |-> TRUE, max_height_ft |-> Ft(95),
         base_height_max_ft |-> Ft(65),
         setback_line |-> << <<Ft(10), 0>>, <<Ft(10), bldgD>> >>,
         sky_exposure_plane |-> NoSep]] >>]

\* A three-scenario payload as the backend (/api/v1/massing/{bbl}) or the
\* parent window delivers it.
SampleFloor(n, use, elev, h, poly) ==
  [floor_num |-> n, use |-> use, elevation_ft |-> elev, height_ft |-> h,
   footprint |-> poly, gross_area_sf |-> 3500, net_area_sf |-> 2870]

SamplePayload ==
  [lot |-> DemoLot,
   scenarios |-> <<
     [name |-> <<"Commercial">>,
      floors |-> << SampleFloor(1, "commercial", 0, Ft(15), basePoly) >>,
      bulkhead |-> NoBulkhead,
      zoning_envelope |-> NoEnvelope],
     [name |-> <<"Max", "Residential">>,
      floors |-> << SampleFloor(1, "commercial", 0, Ft(15), basePoly),
                    SampleFloor(2, "residential", Ft(15), Ft(10), basePoly) >>,
      bulkhead |-> NoBulkhead,
      zoning_envelope |->
        [present |-> TRUE, max_height_ft |-> Ft(120),
         base_height_max_ft |-> Undefined,
         setback_line |-> << <<Ft(10), 0>>, <<Ft(10), bldgD>> >>,
         sky_exposure_plane |->
           [present |-> TRUE, start_height |-> Ft(60), slope |-> 270,
            ratio |-> Undefined]]],
     [name |-> <<"Community", "Facility">>,
      floors |-> << SampleFloor(1, "community_facility", 0, Ft(15), basePoly),
                    SampleFloor(2, "storage", Ft(15), Ft(10),
                                << <<0, 0>>, <<bldgW, 0>> >>) >>,
      bulkhead |-> NoBulkhead,
      zoning_envelope |-> NoEnvelope] >>]

\* A payload without scenarios ({lot, scenarios: []}).
EmptyPayload == [lot |-> DemoLot, scenarios |-> <<>>]

PayloadIds == {"demo", "sample", "empty"}

Payload(p) ==
  CASE p = "demo" -> getDemoData
    [] p = "sample" -> SamplePayload
    [] OTHER -> EmptyPayload

\* -------------------------------------------------------------------- state
VARIABLES
  massingData,        \* App: useState(null)   - payload id or NoPayload
  loading,            \* App: useState(true)
  error,              \* App: useState(null)
  activeScenario,     \* App: useState(0)      - 0-based index
  selectedFloor,      \* App: useState(null)
  hoveredFloor,       \* App: useState(null)
  showEnvelope,       \* App: useState(false)
  showLotBoundary,    \* App: useState(true)
  showSetbacks,       \* App: useState(true)
  showFloorLabels,    \* App: useState(false)
  comparisonMode,     \* App: useState(false)
  comparisonScenario, \* App: useState(1)
  urlScenario,        \* ?scenario= parameter of window.location.search
  fetchState,         \* fetchData(): "none" | "pending" | "done"
  localHover,         \* FloorMesh: useState(false), set of <<building, idx>>
  crashed,            \* a render threw (no error boundary): the tree is gone
  props,              \* props handed to a geometry component
  rendered,           \* what that component returned
  page,               \* React state of a page of the SaaS frontend
  net,                \* its requests in flight and pending timers
  backend             \* status of the reports the backend has created

appVars ==
  <<massingData, loading, error, activeScenario, selectedFloor, hoveredFloor,
    showEnvelope, showLotBoundary, showSetbacks, showFloorLabels,
    comparisonMode, comparisonScenario, urlScenario, fetchState, localHover,
    crashed>>

geomVars == <<props, rendered>>

pageVars == <<page, net, backend>>

\* no page of the SaaS frontend is open
NoPage == [name |-> "none"]

PagesIdle ==
  /\ page = NoPage
  /\ net = {}
  /\ backend = <<>>

vars ==
  <<massingData, loading, error, activeScenario, selectedFloor, hoveredFloor,
    showEnvelope, showLotBoundary, showSetbacks, showFloorLabels,
    comparisonMode, comparisonScenario, urlScenario, fetchState, localHover,
    crashed, props, rendered, page, net, backend>>

\* ------------------------------------------------------------ App (render)
\* massingData.scenarios, or nothing while there is no payload
Scenarios ==
  IF massingData = NoPayload THEN <<>> ELSE Payload(massingData).scenarios

\* scenarios[i] is defined (i is a 0-based JavaScript index)
InRange(i) == i >= 0 /\ i < Len(Scenarios)

\* variant: the error guard is missing
ScreenIgnoresError ==
  IF crashed THEN "crashed"
  ELSE IF loading THEN "loading"
  ELSE IF massingData = NoPayload \/ Len(Scenarios) = 0 THEN "nodata"
  ELSE "main"

\* the render guards of App, in their order
Screen ==
  IF crashed THEN "crashed"
  ELSE IF loading THEN "loading"
  ELSE IF error # NoError THEN "error"
  ELSE IF massingData = NoPayload \/ Len(Scenarios) = 0 THEN "nodata"
  ELSE "main"

\* const currentScenario = scenarios[activeScenario] || scenarios[0]
currentScenario == IF InRange(activeScenario) THEN activeScenario ELSE 0

\* ComparisonView: const scA = scenarios[scenarioA]  (may be undefined)
scA == activeScenario

\* ComparisonView: const scB = scenarios[scenarioB] || scenarios[0]
scB == IF InRange(comparisonScenario) THEN comparisonScenario ELSE 0

\* ComparisonView reads scA.name (and scA.zoning_envelope) of an undefined scA
RenderThrows ==
  /\ ~loading
  /\ error = NoError
  /\ Len(Scenarios) > 0
  /\ comparisonMode
  /\ ~InRange(scA)

\* the floor tooltip of App: {hoveredFloor && !selectedFloor && (...)}
TooltipShown ==
  Screen = "main" /\ hoveredFloor # NoFloor /\ ~(selectedFloor # NoFloor)

\* InfoPanel: {(selectedFloor || hoveredFloor) && <FloorCard floor={selectedFloor || hoveredFloor} />}
FloorCardFloor == IF selectedFloor # NoFloor THEN selectedFloor ELSE hoveredFloor

\* -------------------------------------------------- BuildingMesh / FloorMesh
\* the buildings on screen: "S" in MassingScene, "A" and "B" in ComparisonView
Buildings ==
  IF Screen # "main" THEN {}
  ELSE IF comparisonMode THEN {"A", "B"} ELSE {"S"}

BuildingScenario(b) ==
  CASE b = "S" -> currentScenario
    [] b = "A" -> scA
    [] OTHER -> scB

FloorsOf(b) == Scenarios[BuildingScenario(b) + 1].floors

\* the FloorMesh components mounted: scenario.floors.map((floor, idx) => ...)
MountedKeys ==
  {k \in Buildings \X (0..7) : k[2] < Len(FloorsOf(k[1]))}

\* FloorMesh: if (!poly || poly.length < 3) geometry is null and nothing is rendered
HasMesh(k) == Len(FloorsOf(k[1])[k[2] + 1].footprint) >= 3

\* the floor solids a pointer event can be delivered to
PointerKeys == {k \in MountedKeys : HasMesh(k) /\ k[2] < MaxPointerFloor}

\* the floor object handed to the callbacks of FloorMesh k
FloorRef(k) ==
  [payload |-> massingData, scenario |-> BuildingScenario(k[1]), floor |-> k[2]]

FloorData(ref) ==
  Payload(ref.payload).scenarios[ref.scenario + 1].floors[ref.floor + 1]

\* BuildingMesh: isHovered={hoveredFloor && hoveredFloor.floor_num === floor.floor_num}
\* (ComparisonView passes no hoveredFloor)
isHovered(k) ==
  /\ k[1] = "S"
  /\ hoveredFloor # NoFloor
  /\ FloorData(hoveredFloor).floor_num = FloorData(FloorRef(k)).floor_num

\* variant: a floor is highlighted only when both flags are set
highlightBoth(k) == isHovered(k) /\ k \in localHover

\* FloorMesh: const highlight = isHovered || localHover
highlight(k) == isHovered(k) \/ k \in localHover

\* <meshStandardMaterial transparent={highlight} opacity={highlight ? 0.85 : 1}
\*   emissive={highlight ? '#ffffff' : '#000000'}
\*   emissiveIntensity={highlight ? 0.15 : 0} />   (hundredths)
meshStandardMaterial(k) ==
  [transparent |-> highlight(k),
   opacity |-> IF highlight(k) THEN 85 ELSE 100,
   emissive |-> IF highlight(k) THEN "#ffffff" ELSE "#000000",
   emissiveIntensity |-> IF highlight(k) THEN 15 ELSE 0]

\* ---------------------------------------------------- preselect (App effect)
\* scenarios.findIndex(s => s.name.toLowerCase().includes(name.toLowerCase()))
findIndex(scs, name) ==
  LET hits == {i \in 1..Len(scs) :
                 Includes(ToLowerCase(scs[i].name), ToLowerCase(name))}
  IN IF hits = {} THEN -1
     ELSE (CHOOSE i \in hits : \A j \in hits : i <= j) - 1

\* useEffect(..., [massingData]): the active index after payload p arrived
Preselect(p, cur) ==
  IF p = NoPayload THEN cur
  ELSE IF urlScenario # NoName
       THEN LET idx == findIndex(Payload(p).scenarios, urlScenario)
            IN IF idx >= 0 THEN idx ELSE cur
       ELSE cur

\* what every state change is followed by: the tree is rendered again, a
\* throwing render unmounts it, and unmounted FloorMeshes lose their state
Rerender(lh) ==
  /\ crashed' = RenderThrows'
  /\ localHover' = lh \cap MountedKeys'

\* --------------------------------------------------------------------- Init
IdleProps == [component |-> "none"]

InitApp ==
  /\ PagesIdle
  /\ urlScenario \in {NoName, <<"max">>}
  /\ \/ \* inline data in the URL hash
        /\ massingData \in PayloadIds
        /\ loading = FALSE
        /\ fetchState = "none"
     \/ \* no ?bbl=: demo data
        /\ massingData = "demo"
        /\ loading = FALSE
        /\ fetchState = "none"
     \/ \* fetchData() started
        /\ massingData = NoPayload
        /\ loading = TRUE
        /\ fetchState = "pending"
  /\ error = NoError
  /\ activeScenario = Preselect(massingData, 0)
  /\ selectedFloor = NoFloor
  /\ hoveredFloor = NoFloor
  /\ showEnvelope = FALSE
  /\ showLotBoundary = TRUE
  /\ showSetbacks = TRUE
  /\ showFloorLabels = FALSE
  /\ comparisonMode = FALSE
  /\ comparisonScenario = 1
  /\ localHover = {}
  /\ crashed = FALSE

Init ==
  /\ InitApp
  /\ props = IdleProps
  /\ rendered = [done |-> FALSE, elements |-> {}]

\* ------------------------------------------------------------ load (App)
displayVars == <<showEnvelope, showLotBoundary, showSetbacks, showFloorLabels>>

\* handleMessage: a MASSING_DATA message of the parent window
ReceiveMessage(p) ==
  /\ ~crashed
  /\ massingData' = p
  /\ loading' = FALSE
  /\ activeScenario' = Preselect(p, activeScenario)
  /\ UNCHANGED <<error, selectedFloor, hoveredFloor, displayVars,
                 comparisonMode, comparisonScenario, urlScenario, fetchState,
                 geomVars, pageVars>>
  /\ Rerender(localHover)

\* fetchData: resp.ok, setMassingData(data); finally setLoading(false)
FetchSucceeds(p) ==
  /\ ~crashed
  /\ fetchState = "pending"
  /\ fetchState' = "done"
  /\ massingData' = p
  /\ loading' = FALSE
  /\ activeScenario' = Preselect(p, activeScenario)
  /\ UNCHANGED <<error, selectedFloor, hoveredFloor, displayVars,
                 comparisonMode, comparisonScenario, urlScenario, geomVars, pageVars>>
  /\ Rerender(localHover)

\* fetchData: catch (err) setError(err.message); finally setLoading(false)
FetchFails ==
  /\ ~crashed
  /\ fetchState = "pending"
  /\ fetchState' = "done"
  /\ error' = "HTTP 500"
  /\ loading' = FALSE
  /\ UNCHANGED <<massingData, activeScenario, selectedFloor, hoveredFloor,
                 displayVars, comparisonMode, comparisonScenario, urlScenario,
                 geomVars, pageVars>>
  /\ Rerender(localHover)

\* error screen: <button onClick={() => window.location.reload()}>Retry</button>
Retry ==
  /\ Screen = "error"
  /\ massingData' = NoPayload
  /\ loading' = TRUE
  /\ error' = NoError
  /\ fetchState' = "pending"
  /\ activeScenario' = 0
  /\ selectedFloor' = NoFloor
  /\ hoveredFloor' = NoFloor
  /\ showEnvelope' = FALSE
  /\ showLotBoundary' = TRUE
  /\ showSetbacks' = TRUE
  /\ showFloorLabels' = FALSE
  /\ comparisonMode' = FALSE
  /\ comparisonScenario' = 1
  /\ UNCHANGED <<urlScenario, geomVars, pageVars>>
  /\ Rerender({})

\* --------------------------------------------------------- toolbar (App)
\* scenario <select>: onChange fires for an option other than the shown one
SelectScenario(i) ==
  /\ Screen = "main"
  /\ InRange(i)
  /\ i # currentScenario
  /\ activeScenario' = i
  /\ selectedFloor' = NoFloor
  /\ hoveredFloor' = NoFloor
  /\ UNCHANGED <<massingData, loading, error, displayVars, comparisonMode,
                 comparisonScenario, urlScenario, fetchState, geomVars, pageVars>>
  /\ Rerender(localHover)

\* InfoPanel: the options of the "Compare with" <select> (i !== activeScenario)
ComparisonOptions == {i \in 0..(Len(Scenarios) - 1) : i # activeScenario}

\* the option that <select value={comparisonScenario}> shows
ShownComparisonOption ==
  IF comparisonScenario \in ComparisonOptions THEN comparisonScenario
  ELSE CHOOSE i \in ComparisonOptions : \A j \in ComparisonOptions : i <= j

\* InfoPanel: onChange={(e) => setComparisonScenario(Number(e.target.value))}
SelectComparison(i) ==
  /\ Screen = "main"
  /\ comparisonMode
  /\ i \in ComparisonOptions
  /\ i # ShownComparisonOption
  /\ comparisonScenario' = i
  /\ UNCHANGED <<massingData, loading, error, activeScenario, selectedFloor,
                 hoveredFloor, displayVars, comparisonMode, urlScenario,
                 fetchState, geomVars, pageVars>>
  /\ Rerender(localHover)

\* variant: entering or leaving comparison mode also drops the floor selection
ToggleComparisonResets ==
  /\ Screen = "main"
  /\ comparisonMode' = ~comparisonMode
  /\ selectedFloor' = NoFloor
  /\ hoveredFloor' = NoFloor
  /\ UNCHANGED <<massingData, loading, error, activeScenario, displayVars,
                 comparisonScenario, urlScenario, fetchState, geomVars, pageVars>>
  /\ Rerender(localHover)

\* onClick={() => setComparisonMode(!comparisonMode)}
ToggleComparison ==
  /\ Screen = "main"
  /\ comparisonMode' = ~comparisonMode
  /\ UNCHANGED <<massingData, loading, error, activeScenario, selectedFloor,
                 hoveredFloor, displayVars, comparisonScenario, urlScenario,
                 fetchState, geomVars, pageVars>>
  /\ Rerender(localHover)

\* onChange={(e) => setShowEnvelope(e.target.checked)}
ToggleEnvelope ==
  /\ Screen = "main"
  /\ showEnvelope' = ~showEnvelope
  /\ UNCHANGED <<massingData, loading, error, activeScenario, selectedFloor,
                 hoveredFloor, showLotBoundary, showSetbacks, showFloorLabels,
                 comparisonMode, comparisonScenario, urlScenario, fetchState,
                 geomVars, pageVars>>
  /\ Rerender(localHover)

\* onChange={(e) => setShowLotBoundary(e.target.checked)}
ToggleLotBoundary ==
  /\ Screen = "main"
  /\ showLotBoundary' = ~showLotBoundary
  /\ UNCHANGED <<massingData, loading, error, activeScenario, selectedFloor,
                 hoveredFloor, showEnvelope, showSetbacks, showFloorLabels,
                 comparisonMode, comparisonScenario, urlScenario, fetchState,
                 geomVars, pageVars>>
  /\ Rerender(localHover)

\* onChange={(e) => setShowSetbacks(e.target.checked)}
ToggleSetbacks ==
  /\ Screen = "main"
  /\ showSetbacks' = ~showSetbacks
  /\ UNCHANGED <<massingData, loading, error, activeScenario, selectedFloor,
                 hoveredFloor, showEnvelope, showLotBoundary, showFloorLabels,
                 comparisonMode, comparisonScenario, urlScenario, fetchState,
                 geomVars, pageVars>>
  /\ Rerender(localHover)

\* onChange={(e) => setShowFloorLabels(e.target.checked)}
ToggleFloorLabels ==
  /\ Screen = "main"
  /\ showFloorLabels' = ~showFloorLabels
  /\ UNCHANGED <<massingData, loading, error, activeScenario, selectedFloor,
                 hoveredFloor, showEnvelope, showLotBoundary, showSetbacks,
                 comparisonMode, comparisonScenario, urlScenario, fetchState,
                 geomVars, pageVars>>
  /\ Rerender(localHover)

\* ------------------------------------------------ floor callbacks and events
\* variant: ComparisonView wires its floors to setSelectedFloor as well
onFloorClickWired(b, fl) == fl

\* variant: a click on the selected floor deselects it
onFloorClickToggle(b, fl) ==
  IF b = "S" THEN (IF selectedFloor = fl THEN NoFloor ELSE fl)
  ELSE selectedFloor

\* onFloorClick: setSelectedFloor in MassingScene, () => {} in ComparisonView
onFloorClick(b, fl) == IF b = "S" THEN fl ELSE selectedFloor

\* onFloorHover: setHoveredFloor in MassingScene, () => {} in ComparisonView
onFloorHover(b, fl) == IF b = "S" THEN fl ELSE hoveredFloor

\* variant: a pointer-enter does not replace a floor that is already hovered
onHoverKeepFirst(k, hovered) ==
  IF hovered /\ hoveredFloor # NoFloor THEN hoveredFloor
  ELSE onFloorHover(k[1], IF hovered THEN FloorRef(k) ELSE NoFloor)

\* BuildingMesh: onHover={(hovered) => onFloorHover(hovered ? floor : null)}
onHover(k, hovered) ==
  onFloorHover(k[1], IF hovered THEN FloorRef(k) ELSE NoFloor)

\* FloorMesh onClick: e.stopPropagation(); onClick()
FloorClick(k) ==
  /\ k \in PointerKeys
  /\ selectedFloor' = onFloorClick(k[1], FloorRef(k))
  /\ UNCHANGED <<massingData, loading, error, activeScenario, hoveredFloor,
                 displayVars, comparisonMode, comparisonScenario, urlScenario,
                 fetchState, geomVars, pageVars>>
  /\ Rerender(localHover)

\* FloorMesh onPointerEnter: setLocalHover(true); onHover(true)
PointerEnter(k) ==
  /\ k \in PointerKeys
  /\ k \notin localHover
  /\ hoveredFloor' = onHover(k, TRUE)
  /\ UNCHANGED <<massingData, loading, error, activeScenario, selectedFloor,
                 displayVars, comparisonMode, comparisonScenario, urlScenario,
                 fetchState, geomVars, pageVars>>
  /\ Rerender(localHover \cup {k})

\* FloorMesh onPointerLeave: setLocalHover(false); onHover(false)
PointerLeave(k) ==
  /\ k \in PointerKeys
  /\ k \in localHover
  /\ hoveredFloor' = onHover(k, FALSE)
  /\ UNCHANGED <<massingData, loading, error, activeScenario, selectedFloor,
                 displayVars, comparisonMode, comparisonScenario, urlScenario,
                 fetchState, geomVars, pageVars>>
  /\ Rerender(localHover \ {k})

AllKeys == {"S", "A", "B"} \X (0..7)

\* ------------------------------------------------------------ specification
Next ==
  \/ \E p \in PayloadIds : ReceiveMessage(p)
  \/ \E p \in PayloadIds : FetchSucceeds(p)
  \/ FetchFails
  \/ Retry
  \/ \E i \in 0..2 : SelectScenario(i)
  \/ \E i \in 0..2 : SelectComparison(i)
  \/ ToggleComparison
  \/ \E k \in AllKeys : FloorClick(k)
  \/ \E k \in AllKeys : PointerEnter(k)
  \/ \E k \in AllKeys : PointerLeave(k)

Spec == Init /\ [][Next]_vars

\* The viewer once its payload is on screen, with no hosting parent window:
\* toolbar, comparison select and floor events only.
InitDisplay ==
  /\ InitApp
  /\ Screen = "main"
  /\ props = IdleProps
  /\ rendered = [done |-> FALSE, elements |-> {}]

NextDisplay ==
  \/ ToggleEnvelope
  \/ ToggleLotBoundary
  \/ ToggleSetbacks
  \/ ToggleFloorLabels
  \/ ToggleComparison
  \/ \E i \in 0..2 : SelectScenario(i)
  \/ \E i \in 0..2 : SelectComparison(i)
  \/ \E k \in AllKeys : FloorClick(k)
  \/ \E k \in AllKeys : PointerEnter(k)
  \/ \E k \in AllKeys : PointerLeave(k)

SpecDisplay == InitDisplay /\ [][NextDisplay]_vars

\* ------------------------------------------- one ray through several solids
\* a pointer ray hits at most MaxRayHits floor solids
MaxRayHits == 2

\* the solids a ray of the canvas can go through, nearest first (the
\* comparison view holds both buildings in one canvas)
Rays ==
  LET keys == PointerKeys
  IN {ray \in UNION {[1..n -> keys] : n \in 1..MaxRayHits} :
        \A i, j \in DOMAIN ray : i # j => ray[i] # ray[j]}

\* variant: no handler of FloorMesh stops the propagation
stopPropagationNever(handler) == FALSE

\* FloorMesh: e.stopPropagation() opens onClick, onPointerEnter and
\* onPointerLeave
stopPropagation(handler) ==
  handler \in {"onClick", "onPointerEnter", "onPointerLeave"}

\* the solids of a ray whose handler runs: the event is handed to the solids
\* hit, nearest first, until a handler has stopped its propagation
Delivered(ray, handler) ==
  IF stopPropagation(handler) THEN SubSeq(ray, 1, 1) ELSE ray

Last(seq) == seq[Len(seq)]

\* a click whose ray goes through the solids of ray
RayClick(ray) ==
  /\ LET k == Last(Delivered(ray, "onClick"))
     IN selectedFloor' = onFloorClick(k[1], FloorRef(k))
  /\ UNCHANGED <<massingData, loading, error, activeScenario, hoveredFloor,
                 displayVars, comparisonMode, comparisonScenario, urlScenario,
                 fetchState, geomVars, pageVars>>
  /\ Rerender(localHover)

\* the pointer comes to lie over the solids of ray
RayEnter(ray) ==
  /\ \A i \in DOMAIN ray : ray[i] \notin localHover
  /\ UNCHANGED <<massingData, loading, error, activeScenario, selectedFloor,
                 displayVars, comparisonMode, comparisonScenario, urlScenario,
                 fetchState, geomVars, pageVars>>
  /\ LET dl == Delivered(ray, "onPointerEnter")
     IN /\ hoveredFloor' = onHover(Last(dl), TRUE)
        /\ Rerender(localHover \cup {dl[i] : i \in DOMAIN dl})

\* the pointer leaves the solids of ray
RayLeave(ray) ==
  /\ \A i \in DOMAIN ray : ray[i] \in localHover
  /\ UNCHANGED <<massingData, loading, error, activeScenario, selectedFloor,
                 displayVars, comparisonMode, comparisonScenario, urlScenario,
                 fetchState, geomVars, pageVars>>
  /\ LET dl == Delivered(ray, "onPointerLeave")
     IN /\ hoveredFloor' = onHover(Last(dl), FALSE)
        /\ Rerender(localHover \ {dl[i] : i \in DOMAIN dl})

NextPointer ==
  \/ \E ray \in Rays : RayClick(ray)
  \/ \E ray \in Rays : RayEnter(ray)
  \/ \E ray \in Rays : RayLeave(ray)
  \/ \E i \in 0..2 : SelectScenario(i)
  \/ ToggleComparison

SpecPointer == InitDisplay /\ [][NextPointer]_vars

\* ------------------------------------------------------- ZoningEnvelope.jsx
\* rendered: what a geometry component returned, or nothing before it ran
NotRendered == [done |-> FALSE, elements |-> {}]

Min(a, b) == IF a <= b THEN a ELSE b

\* an element of the returned group: its kind and its points <<x, y, z>>
Element(kind, points) == [kind |-> kind, points |-> points]

\* variant: the back edge is not clamped
SkyExposurePlaneNoCap(sep, lot) ==
  LET w == OrDefault(lot.frontage_ft, Ft(50))
      d == OrDefault(lot.depth_ft, Ft(100))
      startH == OrDefault(sep.start_height, Ft(60))
      slope == OrDefault(sep.slope, 270)
      farH == startH + (d * slope) \div 100
  IN Element("skyExposurePlane",
             << <<0, startH, 0>>, <<w, startH, 0>>,
                <<w, farH, d>>, <<0, farH, d>> >>)

\* SkyExposurePlane: startH = sep.start_height || 60, slope = sep.slope || 2.7
\* (slope in hundredths); back edge at Math.min(startH + d * slope, 300)
SkyExposurePlane(sep, lot) ==
  LET w == OrDefault(lot.frontage_ft, Ft(50))
      d == OrDefault(lot.depth_ft, Ft(100))
      startH == OrDefault(sep.start_height, Ft(60))
      slope == OrDefault(sep.slope, 270)
      farH == Min(startH + (d * slope) \div 100, Ft(300))
  IN Element("skyExposurePlane",
             << <<0, startH, 0>>, <<w, startH, 0>>,
                <<w, farH, d>>, <<0, farH, d>> >>)

\* ZoningEnvelope({ envelope, lot }): the elements of the returned group
ZoningEnvelope(envelope, lot) ==
  LET w == OrDefault(lot.frontage_ft, Ft(50))
      d == OrDefault(lot.depth_ft, Ft(100))
      maxH == OrDefault(envelope.max_height_ft, Ft(100))
      baseH == OrDefault(envelope.base_height_max_ft, Ft(60))
      corners == << <<0, 0>>, <<w, 0>>, <<w, d>>, <<0, d>> >>
      setbackLine == envelope.setback_line
      sep == envelope.sky_exposure_plane
  IN
    {Element("maxHeightPlane", << <<w \div 2, maxH, d \div 2>> >>),
     Element("maxHeightBorder",
             << <<0, maxH, 0>>, <<w, maxH, 0>>, <<w, maxH, d>>,
                <<0, maxH, d>>, <<0, maxH, 0>> >>)}
    \cup
    (IF baseH > 0 /\ baseH < maxH
     THEN {Element("baseHeightPlane", << <<w \div 2, baseH, d \div 2>> >>),
           Element("baseHeightBorder",
                   << <<0, baseH, 0>>, <<w, baseH, 0>>, <<w, baseH, d>>,
                      <<0, baseH, d>>, <<0, baseH, 0>> >>)}
     ELSE {})
    \cup
    {Element("verticalEdge",
             << <<corners[i][1], 0, corners[i][2]>>,
                <<corners[i][1], maxH, corners[i][2]>> >>) : i \in 1..4}
    \cup
    (IF Len(setbackLine) >= 2
     THEN {Element("setbackAtGrade",
                   [i \in 1..Len(setbackLine) |->
                      <<setbackLine[i][1], 20, setbackLine[i][2]>>]),
           Element("setbackAtBase",
                   [i \in 1..Len(setbackLine) |->
                      <<setbackLine[i][1], baseH, setbackLine[i][2]>>]),
           Element("setbackVertical",
                   << <<setbackLine[1][1], 20, setbackLine[1][2]>>,
                      <<setbackLine[1][1], baseH, setbackLine[1][2]>> >>)}
     ELSE {})
    \cup
    (IF sep.present THEN {SkyExposurePlane(sep, lot)} ELSE {})

\* the kinds of element a rendered group contains
Kinds(r) == {e.kind : e \in r.elements}

\* --------------------------------------------------- heights fed to the props
\* heights are multiples of 20 ft up to MaxHeightStep * 20 ft
MaxHeightStep == 6

HeightInputs == {Undefined, 0, Ft(-20)} \cup {Ft(20) * k : k \in 1..MaxHeightStep}

SetbackLineInputs ==
  {<<>>,
   << <<Ft(10), 0>> >>,
   << <<Ft(10), 0>>, <<Ft(10), Ft(70)>> >>}

SepInputs ==
  {NoSep,
   [present |-> TRUE, start_height |-> Ft(60), slope |-> 270,
    ratio |-> Undefined],
   [present |-> TRUE, start_height |-> Ft(20), slope |-> 100,
    ratio |-> Undefined],
   [present |-> TRUE, start_height |-> Undefined, slope |-> Undefined,
    ratio |-> 100]}

LotInputs ==
  {DemoLot,
   [polygon |-> Rect(0, 0, Ft(25), Ft(80)), frontage_ft |-> Ft(25),
    depth_ft |-> Ft(80)],
   [polygon |-> <<>>, frontage_ft |-> Undefined, depth_ft |-> Undefined]}

EnvelopeInputs ==
  {[present |-> TRUE, max_height_ft |-> m, base_height_max_ft |-> b,
    setback_line |-> sl, sky_exposure_plane |-> sp] :
     m \in HeightInputs, b \in HeightInputs,
     sl \in SetbackLineInputs, sp \in SepInputs}

\* the App state while a geometry component is exercised on its own
AppIdle ==
  /\ PagesIdle
  /\ massingData = NoPayload
  /\ loading = TRUE
  /\ error = NoError
  /\ activeScenario = 0
  /\ selectedFloor = NoFloor
  /\ hoveredFloor = NoFloor
  /\ showEnvelope = FALSE
  /\ showLotBoundary = TRUE
  /\ showSetbacks = TRUE
  /\ showFloorLabels = FALSE
  /\ comparisonMode = FALSE
  /\ comparisonScenario = 1
  /\ urlScenario = NoName
  /\ fetchState = "none"
  /\ localHover = {}
  /\ crashed = FALSE

InitEnvelope ==
  /\ AppIdle
  /\ \E e \in EnvelopeInputs, l \in LotInputs :
       props = [component |-> "ZoningEnvelope", envelope |-> e, lot |-> l]
  /\ rendered = NotRendered

\* <ZoningEnvelope envelope={...} lot={lot} /> is rendered
RenderZoningEnvelope ==
  /\ props.component = "ZoningEnvelope"
  /\ ~rendered.done
  /\ rendered' = [done |-> TRUE,
                  elements |-> ZoningEnvelope(props.envelope, props.lot)]
  /\ UNCHANGED <<appVars, pageVars, props>>

\* the parent hands over an envelope with another base_height_max_ft
SetBaseHeight(b) ==
  /\ props.component = "ZoningEnvelope"
  /\ rendered.done
  /\ b # props.envelope.base_height_max_ft
  /\ props' = [props EXCEPT !.envelope.base_height_max_ft = b]
  /\ rendered' = [done |-> TRUE,
                  elements |-> ZoningEnvelope(props'.envelope, props'.lot)]
  /\ UNCHANGED <<appVars, pageVars>>

NextEnvelope ==
  \/ RenderZoningEnvelope
  \/ \E b \in HeightInputs : SetBaseHeight(b)

SpecEnvelope == InitEnvelope /\ [][NextEnvelope]_vars

\* ------------------------------------------------------------- FloorMesh
\* const FLOOR_GAP = 0.3
FLOOR_GAP == 30

\* variant: a use outside the palette gets no color
USE_COLORS_NoFallback(use) ==
  CASE use = "commercial" -> "#4A90D9"
    [] use = "residential" -> "#F5E6CC"
    [] use = "community_facility" -> "#6BBF6B"
    [] use = "parking" -> "#999999"
    [] use = "mechanical" -> "#777777"
    [] use = "cellar" -> "#777777"
    [] use = "core" -> "#555555"
    [] OTHER -> "undefined"

\* USE_COLORS[floor.use] || '#cccccc'
USE_COLORS(use) ==
  CASE use = "commercial" -> "#4A90D9"
    [] use = "residential" -> "#F5E6CC"
    [] use = "community_facility" -> "#6BBF6B"
    [] use = "parking" -> "#999999"
    [] use = "mechanical" -> "#777777"
    [] use = "cellar" -> "#777777"
    [] use = "core" -> "#555555"
    [] OTHER -> "#cccccc"

\* extrudeSettings.depth = floor.height_ft - FLOOR_GAP
extrudeDepth(fl) == fl.height_ft - FLOOR_GAP

\* variant: the group sits a whole gap above the floor's elevation
groupYWholeGap(fl) == fl.elevation_ft + FLOOR_GAP

\* <group position={[0, elevation + FLOOR_GAP / 2, 0]}>
groupY(fl) == fl.elevation_ft + FLOOR_GAP \div 2

\* a part of what FloorMesh returns: y is the base of the part in the scene,
\* depth its vertical extent
FloorPart(kind, fl, y, depth, color) ==
  [kind |-> kind, floor_num |-> fl.floor_num, y |-> y, depth |-> depth,
   color |-> color]

\* FloorMesh({ floor, showLabel }): nothing when the footprint has fewer than
\* 3 points, else the solid, its wireframe and the optional label
FloorMesh(fl, showLabel) ==
  IF Len(fl.footprint) < 3 THEN {}
  ELSE {FloorPart("floorSolid", fl, groupY(fl), extrudeDepth(fl),
                  USE_COLORS(fl.use)),
        FloorPart("floorWireframe", fl, groupY(fl), extrudeDepth(fl),
                  "#333333")}
       \cup
       (IF showLabel
        THEN {FloorPart("floorLabel", fl, groupY(fl) + fl.height_ft \div 2, 0,
                        "#333")}
        ELSE {})

\* floors stand on storeys of 10 ft, up to MaxStorey
MaxStorey == 3

FloorInputs ==
  {[floor_num |-> n, use |-> u, elevation_ft |-> Ft(10) * st, height_ft |-> h,
    footprint |-> fp, gross_area_sf |-> 3500, net_area_sf |-> 2870] :
     n \in {1, 2}, u \in {"commercial", "residential", "storage"},
     st \in 0..MaxStorey,
     h \in {0, FLOOR_GAP, FLOOR_GAP + 1, Ft(10), Ft(15)},
     fp \in {<< <<0, 0>>, <<lotW, 0>> >>, basePoly}}

InitFloor ==
  /\ AppIdle
  /\ \E f \in FloorInputs, l \in BOOLEAN :
       props = [component |-> "FloorMesh", floor |-> f, showLabel |-> l]
  /\ rendered = NotRendered

\* <FloorMesh floor={floor} showLabel={showFloorLabels} /> is rendered
RenderFloorMesh ==
  /\ props.component = "FloorMesh"
  /\ ~rendered.done
  /\ rendered' = [done |-> TRUE,
                  elements |-> FloorMesh(props.floor, props.showLabel)]
  /\ UNCHANGED <<appVars, pageVars, props>>

\* the parent renders the same floor with the other showLabel
SetShowLabel ==
  /\ props.component = "FloorMesh"
  /\ rendered.done
  /\ props' = [props EXCEPT !.showLabel = ~props.showLabel]
  /\ rendered' = [done |-> TRUE,
                  elements |-> FloorMesh(props'.floor, props'.showLabel)]
  /\ UNCHANGED <<appVars, pageVars>>

NextFloor ==
  \/ RenderFloorMesh
  \/ SetShowLabel

SpecFloor == InitFloor /\ [][NextFloor]_vars

\* ---------------------------------------------------------------- LotPlane
\* lotBoundary: the polygon closed with its first point at y = 0.15, or the
\* frontage x depth rectangle when the polygon has fewer than 3 points
lotBoundary(lot) ==
  LET polygon == lot.polygon
      w == OrDefault(lot.frontage_ft, Ft(50))
      d == OrDefault(lot.depth_ft, Ft(100))
      n == Len(polygon)
  IN IF n >= 3
     THEN [i \in 1..(n + 1) |->
             IF i <= n THEN <<polygon[i][1], 15, polygon[i][2]>>
             ELSE <<polygon[1][1], 15, polygon[1][2]>>]
     ELSE << <<0, 15, 0>>, <<w, 15, 0>>, <<w, 15, d>>, <<0, 15, d>>,
             <<0, 15, 0>> >>

\* lotFillGeo: the outline of the filled shape (polygon or rectangle), laid
\* flat; the mesh sits at y = 0.05
lotFillGeo(lot) ==
  LET polygon == lot.polygon
      w == OrDefault(lot.frontage_ft, Ft(50))
      d == OrDefault(lot.depth_ft, Ft(100))
      outline == IF Len(polygon) >= 3 THEN polygon ELSE Rect(0, 0, w, d)
  IN [i \in 1..Len(outline) |-> <<outline[i][1], 5, outline[i][2]>>]

\* SetbackIndicators({ lot }): the dashed rear-yard line and its fill
SetbackIndicators(lot) ==
  LET w == OrDefault(lot.frontage_ft, Ft(50))
      d == OrDefault(lot.depth_ft, Ft(100))
      yard == Ft(30)
      rearZ == d - yard
  IN IF yard > 0 /\ rearZ > 0
     THEN {Element("rearYardLine", << <<0, 20, rearZ>>, <<w, 20, rearZ>> >>),
           Element("rearYardFill",
                   << <<0, 8, rearZ>>, <<w, 8, rearZ>>, <<w, 8, d>>,
                      <<0, 8, d>> >>)}
     ELSE {}

\* LotPlane({ lot, showSetbacks }): the elements of the returned group (the
\* lots of the model carry no street_edges)
LotPlane(lot, showSetbacksProp) ==
  {Element("lotFill", lotFillGeo(lot)),
   Element("lotBoundary", lotBoundary(lot))}
  \cup
  (IF showSetbacksProp THEN SetbackIndicators(lot) ELSE {})

\* ------------------------------------------------------------ BuildingMesh
\* a part of what BulkheadMesh returns
BulkheadPart(kind, bulkhead, color) ==
  [kind |-> kind, y |-> bulkhead.elevation_ft, depth |-> bulkhead.height_ft,
   color |-> color]

\* variant: the bulkhead is extruded whatever its footprint
BulkheadMeshUnguarded(bulkhead) ==
  {BulkheadPart("bulkheadSolid", bulkhead, "#888888"),
   BulkheadPart("bulkheadWireframe", bulkhead, "#333")}

\* BulkheadMesh({ bulkhead }): nothing when the footprint has fewer than 3
\* points, else the solid and its wireframe
BulkheadMesh(bulkhead) ==
  IF Len(bulkhead.footprint) < 3 THEN {}
  ELSE {BulkheadPart("bulkheadSolid", bulkhead, "#888888"),
        BulkheadPart("bulkheadWireframe", bulkhead, "#333")}

\* BuildingMesh: one FloorMesh per entry of scenario.floors (key = index) and
\* {scenario.bulkhead && <BulkheadMesh bulkhead={scenario.bulkhead} />}
BuildingMesh(scenario, showLabels) ==
  [floors |-> [i \in 1..Len(scenario.floors) |->
                 FloorMesh(scenario.floors[i], showLabels)],
   bulkhead |-> IF scenario.bulkhead.present
                THEN BulkheadMesh(scenario.bulkhead) ELSE {}]

\* ------------------------------------------------------------ MassingScene
\* variant: the envelope overlay is rendered whenever the checkbox is on
EnvelopeOverlayUnguarded(scenario, lot, show) ==
  IF show THEN ZoningEnvelope(scenario.zoning_envelope, lot) ELSE {}

\* {showEnvelope && scenario.zoning_envelope && <ZoningEnvelope ... />}
EnvelopeOverlay(scenario, lot, show) ==
  IF show /\ scenario.zoning_envelope.present
  THEN ZoningEnvelope(scenario.zoning_envelope, lot)
  ELSE {}

\* MassingScene: what the canvas holds of the lot, the building and the
\* zoning envelope
MassingScene(p) ==
  [lot |-> IF p.showLotBoundary THEN LotPlane(p.lot, p.showSetbacks) ELSE {},
   building |-> BuildingMesh(p.scenario, p.showFloorLabels),
   envelope |-> EnvelopeOverlay(p.scenario, p.lot, p.showEnvelope)]

\* -------------------------------------------------- inputs of MassingScene
TwoPoints == << <<0, 0>>, <<lotW, 0>> >>

SceneLotInputs ==
  {DemoLot,
   [polygon |-> TwoPoints, frontage_ft |-> Ft(25), depth_ft |-> Ft(80)],
   [polygon |-> <<>>, frontage_ft |-> Undefined, depth_ft |-> Undefined]}

SceneFloorsInputs ==
  {<< SampleFloor(1, "commercial", 0, Ft(15), basePoly) >>,
   << SampleFloor(1, "commercial", 0, Ft(15), basePoly),
      SampleFloor(2, "storage", Ft(15), Ft(10), TwoPoints),
      SampleFloor(3, "residential", Ft(25), Ft(10), setbackPoly) >>,
   << SampleFloor(1, "storage", 0, Ft(15), basePoly),
      SampleFloor(2, "residential", Ft(15), Ft(10), basePoly) >>,
   << SampleFloor(1, "residential", 0, Ft(10), <<>>) >>}

SceneBulkheadInputs ==
  {NoBulkhead,
   [present |-> TRUE, footprint |-> Rect(Ft(15), Ft(20), Ft(35), Ft(50)),
    height_ft |-> Ft(15), elevation_ft |-> Ft(35)],
   [present |-> TRUE, footprint |-> TwoPoints,
    height_ft |-> Ft(15), elevation_ft |-> Ft(35)]}

SceneEnvelopeInputs ==
  {NoEnvelope}
  \cup
  {[present |-> TRUE, max_height_ft |-> Ft(120),
    base_height_max_ft |-> Ft(60), setback_line |-> sl,
    sky_exposure_plane |-> sp] :
     sl \in {<<>>, << <<Ft(10), 0>>, <<Ft(10), Ft(70)>> >>},
     sp \in {NoSep,
             [present |-> TRUE, start_height |-> Ft(60), slope |-> 270,
              ratio |-> Undefined]}}

SceneScenarioInputs ==
  {[name |-> <<"Commercial">>, floors |-> f, bulkhead |-> b,
    zoning_envelope |-> e] :
     f \in SceneFloorsInputs, b \in SceneBulkheadInputs,
     e \in SceneEnvelopeInputs}

InitScene ==
  /\ AppIdle
  /\ \E l \in SceneLotInputs, s \in SceneScenarioInputs,
        se \in BOOLEAN, sl \in BOOLEAN, ss \in BOOLEAN, sf \in BOOLEAN :
       props = [component |-> "MassingScene", lot |-> l, scenario |-> s,
                showEnvelope |-> se, showLotBoundary |-> sl,
                showSetbacks |-> ss, showFloorLabels |-> sf]
  /\ rendered = NotRendered

\* <MassingScene lot={...} scenario={...} show...={...} /> is rendered
RenderMassingScene ==
  /\ props.component = "MassingScene"
  /\ ~rendered.done
  /\ rendered' = [done |-> TRUE, scene |-> MassingScene(props)]
  /\ UNCHANGED <<appVars, pageVars, props>>

\* the parent renders the scene again with a changed scenario
RenderAgain(scenario) ==
  /\ props' = [props EXCEPT !.scenario = scenario]
  /\ rendered' = [done |-> TRUE, scene |-> MassingScene(props')]
  /\ UNCHANGED <<appVars, pageVars>>

\* the next payload carries the same scenario without its bulkhead
DropBulkhead ==
  /\ props.component = "MassingScene"
  /\ rendered.done
  /\ props.scenario.bulkhead.present
  /\ RenderAgain([props.scenario EXCEPT !.bulkhead = NoBulkhead])

\* ... without its zoning envelope
DropEnvelope ==
  /\ props.component = "MassingScene"
  /\ rendered.done
  /\ props.scenario.zoning_envelope.present
  /\ RenderAgain([props.scenario EXCEPT !.zoning_envelope = NoEnvelope])

\* ... without the setback line of its envelope
DropSetbackLine ==
  /\ props.component = "MassingScene"
  /\ rendered.done
  /\ props.scenario.zoning_envelope.present
  /\ props.scenario.zoning_envelope.setback_line # <<>>
  /\ RenderAgain([props.scenario EXCEPT !.zoning_envelope.setback_line = <<>>])

\* ... without the sky exposure plane of its envelope
DropSkyExposurePlane ==
  /\ props.component = "MassingScene"
  /\ rendered.done
  /\ props.scenario.zoning_envelope.present
  /\ props.scenario.zoning_envelope.sky_exposure_plane.present
  /\ RenderAgain([props.scenario EXCEPT
                    !.zoning_envelope.sky_exposure_plane = NoSep])

NextScene ==
  \/ RenderMassingScene
  \/ DropBulkhead
  \/ DropEnvelope
  \/ DropSetbackLine
  \/ DropSkyExposurePlane

SpecScene == InitScene /\ [][NextScene]_vars

\* ------------------------------------------------------------ CheckoutPage
\* at most MaxReports generate requests are answered with a report id
MaxReports == 3

\* reportId === null
NoReport == 0

\* preview === null
NoPreview == "null"

\* the viewer's state while a page of the SaaS frontend is exercised
ViewerIdle ==
  /\ massingData = NoPayload
  /\ loading = TRUE
  /\ error = NoError
  /\ activeScenario = 0
  /\ selectedFloor = NoFloor
  /\ hoveredFloor = NoFloor
  /\ showEnvelope = FALSE
  /\ showLotBoundary = TRUE
  /\ showSetbacks = TRUE
  /\ showFloorLabels = FALSE
  /\ comparisonMode = FALSE
  /\ comparisonScenario = 1
  /\ urlScenario = NoName
  /\ fetchState = "none"
  /\ localHover = {}
  /\ crashed = FALSE
  /\ props = IdleProps
  /\ rendered = NotRendered

\* CheckoutPage: the useState initial values; stored is what localStorage
\* holds under "massing_preview", isLoaded comes from useAuthToken
InitCheckout ==
  /\ ViewerIdle
  /\ \E stored \in {"p1", NoPreview} :
       page = [name |-> "checkout", stored |-> stored, mounted |-> FALSE,
               isLoaded |-> FALSE, preview |-> NoPreview, step |-> "confirm",
               error |-> "", reportId |-> NoReport, reportStatus |-> ""]
  /\ net = {}
  /\ backend = <<>>

\* handleGenerate up to its first await: if (!preview) return;
\* setStep("generating"); setError(""); setReportStatus("Initializing...")
CheckoutBeginGenerate(pg) ==
  IF pg.preview = NoPreview THEN pg
  ELSE [pg EXCEPT !.step = "generating", !.error = "",
                  !.reportStatus = "Initializing..."]

\* the requests handleGenerate adds
CheckoutGenerateRequests(pg) ==
  IF pg.preview = NoPreview THEN {}
  ELSE {[kind |-> "generate", preview |-> pg.preview, id |-> NoReport]}

\* the auto-trigger effect: preview && isLoaded && step === "confirm" && !reportId
CheckoutAutoTrigger(pg) ==
  /\ pg.preview # NoPreview
  /\ pg.isLoaded
  /\ pg.step = "confirm"
  /\ pg.reportId = NoReport

\* the mount effect reads localStorage; the auto-trigger effect follows
CheckoutMount ==
  /\ page.name = "checkout"
  /\ ~page.mounted
  /\ LET pg == IF page.stored # NoPreview
               THEN [page EXCEPT !.mounted = TRUE, !.preview = page.stored]
               ELSE [page EXCEPT !.mounted = TRUE,
                       !.error = "No analysis found. Please start from the home page."]
     IN IF CheckoutAutoTrigger(pg)
        THEN /\ page' = CheckoutBeginGenerate(pg)
             /\ net' = net \cup CheckoutGenerateRequests(pg)
        ELSE /\ page' = pg
             /\ net' = net
  /\ UNCHANGED <<appVars, geomVars, backend>>

\* useAuthToken reports isLoaded; the auto-trigger effect depends on it
CheckoutAuthLoaded ==
  /\ page.name = "checkout"
  /\ ~page.isLoaded
  /\ LET pg == [page EXCEPT !.isLoaded = TRUE]
     IN IF CheckoutAutoTrigger(pg)
        THEN /\ page' = CheckoutBeginGenerate(pg)
             /\ net' = net \cup CheckoutGenerateRequests(pg)
        ELSE /\ page' = pg
             /\ net' = net
  /\ UNCHANGED <<appVars, geomVars, backend>>

\* the Generate button of step "confirm" and the retry button of step "error"
\* (both rendered only with a preview)
CheckoutClickGenerate ==
  /\ page.name = "checkout"
  /\ page.mounted
  /\ page.preview # NoPreview
  /\ page.step \in {"confirm", "error"}
  /\ page' = CheckoutBeginGenerate(page)
  /\ net' = net \cup CheckoutGenerateRequests(page)
  /\ UNCHANGED <<appVars, geomVars, backend>>

\* POST /reports/generate answers: ok with a new report id (pollStatus is
\* started), or not ok / network error / no token (catch: step "error")
CheckoutGenerateReturns(ok) ==
  /\ page.name = "checkout"
  /\ \E rq \in net :
       /\ rq.kind = "generate"
       /\ IF ok
          THEN /\ Len(backend) < MaxReports
               /\ backend' = Append(backend, [status |-> "processing",
                                               preview |-> rq.preview])
               /\ page' = [page EXCEPT !.reportId = Len(backend) + 1,
                             !.reportStatus = "Generating zoning analysis..."]
               /\ net' = (net \ {rq})
                           \cup {[kind |-> "poll", preview |-> rq.preview,
                                  id |-> Len(backend) + 1]}
          ELSE /\ backend' = backend
               /\ page' = [page EXCEPT !.step = "error",
                             !.error = "Failed to start report generation."]
               /\ net' = net \ {rq}
  /\ UNCHANGED <<appVars, geomVars>>

\* pollStatus(id) after its fetch settled: a network error schedules a poll in
\* 5 s; if (!res.ok) return; else the status decides: "completed" and
\* "failed" end the polling, anything else schedules a poll in 3 s
pollStatus(pg, rq, outcome, status) ==
  IF outcome = "network"
  THEN [page |-> pg, requests |-> {[rq EXCEPT !.kind = "timer"]}]
  ELSE IF outcome = "notok"
  THEN [page |-> pg, requests |-> {}]
  ELSE IF status = "completed"
  THEN [page |-> [pg EXCEPT !.reportStatus = status, !.step = "complete"],
        requests |-> {}]
  ELSE IF status = "failed"
  THEN [page |-> [pg EXCEPT !.reportStatus = status, !.step = "error",
                    !.error = "Report generation failed. Please try again."],
        requests |-> {}]
  ELSE [page |-> [pg EXCEPT !.reportStatus = status],
        requests |-> {[rq EXCEPT !.kind = "timer"]}]

PollOutcomes == {"ok", "notok", "network"}

\* GET /reports/{id} of a poll settles
CheckoutPollReturns(outcome) ==
  /\ page.name = "checkout"
  /\ \E rq \in net :
       /\ rq.kind = "poll"
       /\ LET after == pollStatus(page, rq, outcome, backend[rq.id].status)
          IN /\ page' = after.page
             /\ net' = (net \ {rq}) \cup after.requests
  /\ UNCHANGED <<appVars, geomVars, backend>>

\* setTimeout(() => pollStatus(id), ...) fires
CheckoutTimerFires ==
  /\ page.name = "checkout"
  /\ \E rq \in net :
       /\ rq.kind = "timer"
       /\ net' = (net \ {rq}) \cup {[rq EXCEPT !.kind = "poll"]}
  /\ UNCHANGED <<appVars, geomVars, page, backend>>

\* the backend finishes a report (backend[id]: its status and the preview it
\* was generated from)
BackendFinishes(id, result) ==
  /\ id \in 1..Len(backend)
  /\ backend[id].status = "processing"
  /\ backend' = [backend EXCEPT ![id].status = result]
  /\ UNCHANGED <<appVars, geomVars, page, net>>

NextCheckout ==
  \/ CheckoutMount
  \/ CheckoutAuthLoaded
  \/ CheckoutClickGenerate
  \/ \E ok \in BOOLEAN : CheckoutGenerateReturns(ok)
  \/ \E outcome \in PollOutcomes : CheckoutPollReturns(outcome)
  \/ CheckoutTimerFires
  \/ \E id \in 1..MaxReports, result \in {"completed", "failed"} :
       BackendFinishes(id, result)

SpecCheckout == InitCheckout /\ [][NextCheckout]_vars

\* ----------------------------------------------------------- NewReportPage
\* the previews the backend computes for the addresses the user may enter
Previews == {"p1", "p2"}

\* cap on the reports generated from the new-report page
MaxNewReports == 2

\* NewReportPage: the useState initial values (an address is typed in)
InitNewReport ==
  /\ ViewerIdle
  /\ page = [name |-> "newReport", loading |-> FALSE, error |-> "",
             preview |-> NoPreview, step |-> "input", reportId |-> NoReport,
             reportStatus |-> ""]
  /\ net = {}
  /\ backend = <<>>

\* handleAnalyze: the form is always rendered, its button is disabled while
\* loading; setLoading(true); setError(""); setPreview(null); setStep("input")
NewReportAnalyze(p) ==
  /\ page.name = "newReport"
  /\ ~page.loading
  /\ page' = [page EXCEPT !.loading = TRUE, !.error = "",
                !.preview = NoPreview, !.step = "input"]
  /\ net' = net \cup {[kind |-> "analyze", preview |-> p, id |-> NoReport]}
  /\ UNCHANGED <<appVars, geomVars, backend>>

\* POST /reports/preview answers; finally setLoading(false)
NewReportAnalyzeReturns(ok) ==
  /\ page.name = "newReport"
  /\ \E rq \in net :
       /\ rq.kind = "analyze"
       /\ page' = IF ok
                  THEN [page EXCEPT !.preview = rq.preview,
                          !.step = "preview", !.loading = FALSE]
                  ELSE [page EXCEPT !.error = "Analysis failed. Please try again.",
                          !.loading = FALSE]
       /\ net' = net \ {rq}
  /\ UNCHANGED <<appVars, geomVars, backend>>

\* the Generate button: rendered in {preview && step !== "input" && !loading}
\* under step === "preview"; handleGenerate up to its first await
NewReportClickGenerate ==
  /\ page.name = "newReport"
  /\ page.preview # NoPreview
  /\ ~page.loading
  /\ page.step = "preview"
  /\ page' = [page EXCEPT !.error = "", !.step = "generating",
                !.reportStatus = "processing"]
  /\ net' = net \cup {[kind |-> "generate", preview |-> page.preview,
                       id |-> NoReport]}
  /\ UNCHANGED <<appVars, geomVars, backend>>

\* POST /reports/generate answers: setReportId(report_id); pollReport(report_id)
\* or catch: setError(...); setStep("preview")
NewReportGenerateReturns(ok) ==
  /\ page.name = "newReport"
  /\ \E rq \in net :
       /\ rq.kind = "generate"
       /\ IF ok
          THEN /\ Len(backend) < MaxNewReports
               /\ backend' = Append(backend, [status |-> "processing",
                                               preview |-> rq.preview])
               /\ page' = [page EXCEPT !.reportId = Len(backend) + 1]
               /\ net' = (net \ {rq})
                           \cup {[kind |-> "poll", preview |-> rq.preview,
                                  id |-> Len(backend) + 1]}
          ELSE /\ backend' = backend
               /\ page' = [page EXCEPT
                             !.error = "Failed to start report generation",
                             !.step = "preview"]
               /\ net' = net \ {rq}
  /\ UNCHANGED <<appVars, geomVars>>

\* pollReport(id) after its fetch settled: a network error schedules a poll in
\* 5 s; if (!res.ok) return; "completed" sets step "complete", "failed" sets
\* the error and step "preview", anything else schedules a poll in 3 s
pollReport(pg, rq, outcome, status) ==
  IF outcome = "network"
  THEN [page |-> pg, requests |-> {[rq EXCEPT !.kind = "timer"]}]
  ELSE IF outcome = "notok"
  THEN [page |-> pg, requests |-> {}]
  ELSE IF status = "completed"
  THEN [page |-> [pg EXCEPT !.reportStatus = status, !.step = "complete"],
        requests |-> {}]
  ELSE IF status = "failed"
  THEN [page |-> [pg EXCEPT !.reportStatus = status,
                    !.error = "Report generation failed",
                    !.step = "preview"],
        requests |-> {}]
  ELSE [page |-> [pg EXCEPT !.reportStatus = status],
        requests |-> {[rq EXCEPT !.kind = "timer"]}]

\* GET /reports/{id} of a poll settles
NewReportPollReturns(outcome) ==
  /\ page.name = "newReport"
  /\ \E rq \in net :
       /\ rq.kind = "poll"
       /\ LET after == pollReport(page, rq, outcome, backend[rq.id].status)
          IN /\ page' = after.page
             /\ net' = (net \ {rq}) \cup after.requests
  /\ UNCHANGED <<appVars, geomVars, backend>>

\* setTimeout(() => pollReport(id), ...) fires
NewReportTimerFires ==
  /\ page.name = "newReport"
  /\ \E rq \in net :
       /\ rq.kind = "timer"
       /\ net' = (net \ {rq}) \cup {[rq EXCEPT !.kind = "poll"]}
  /\ UNCHANGED <<appVars, geomVars, page, backend>>

NextNewReport ==
  \/ \E p \in Previews : NewReportAnalyze(p)
  \/ \E ok \in BOOLEAN : NewReportAnalyzeReturns(ok)
  \/ NewReportClickGenerate
  \/ \E ok \in BOOLEAN : NewReportGenerateReturns(ok)
  \/ \E outcome \in PollOutcomes : NewReportPollReturns(outcome)
  \/ NewReportTimerFires
  \/ \E id \in 1..MaxNewReports, result \in {"completed", "failed"} :
       BackendFinishes(id, result)

SpecNewReport == InitNewReport /\ [][NextNewReport]_vars

\* ---------------------------------------------------------------- StartPage
\* tax lots of one block, in a row: lot i shares a boundary with lot i + 1
BBLs == {1, 2}

\* cap on the requests the start page sends (page.sent counts them)
MaxRequests == 4

\* GET /lots/adjacent/{bbl}: data.adjacent_lots
AdjacentOf(bbl) == {b \in BBLs : b = bbl + 1 \/ b = bbl - 1}

\* lots.map((l) => l.bbl) as a set
BblsOf(lots) == {lots[i].bbl : i \in 1..Len(lots)}

\* the LotCard handleSearch and addAdjacentLot build
newLot(bbl) == [bbl |-> bbl, keepExistingBuilding |-> FALSE]

\* prev.filter((l) => l.bbl !== bbl)
RECURSIVE WithoutBbl(_, _)
WithoutBbl(lots, bbl) ==
  IF lots = <<>> THEN <<>>
  ELSE IF Head(lots).bbl = bbl THEN WithoutBbl(Tail(lots), bbl)
  ELSE <<Head(lots)>> \o WithoutBbl(Tail(lots), bbl)

\* lots.some((l) => !l.keepExistingBuilding)
hasAtLeastOneDevelopment(lots) ==
  \E i \in 1..Len(lots) : ~lots[i].keepExistingBuilding

\* a request of the start page: what its handler's closure holds
StartRequest(kind, bbl, seen, lots) ==
  [kind |-> kind, bbl |-> bbl, seen |-> seen, lots |-> lots]

\* the preview state: null, or the AssemblagePreview the backend computed
\* from the lots and flags of a request body
NoAssemblage == [computed |-> FALSE, lots |-> <<>>]

AssemblagePreview(lots) == [computed |-> TRUE, lots |-> lots]

\* StartPage: the useState initial values
InitStart ==
  /\ ViewerIdle
  /\ page = [name |-> "start", step |-> "search", searchLoading |-> FALSE,
             searchError |-> "", lots |-> <<>>, adjacentLots |-> {},
             adjacentLoading |-> FALSE, adjacentOpen |-> FALSE,
             preview |-> NoAssemblage, previewLoading |-> FALSE,
             previewError |-> "", sent |-> 0]
  /\ net = {}
  /\ backend = <<>>

\* handleSearch up to its await: the form of step "search", its button
\* disabled while searchLoading; the address typed is the one of lot bbl
StartSearch(bbl) ==
  /\ page.name = "start"
  /\ page.step = "search"
  /\ ~page.searchLoading
  /\ page.sent < MaxRequests
  /\ page' = [page EXCEPT !.searchLoading = TRUE, !.searchError = "",
                !.sent = page.sent + 1]
  /\ net' = net \cup {StartRequest("lookup", bbl, BblsOf(page.lots), <<>>)}
  /\ UNCHANGED <<appVars, geomVars, backend>>

\* GET /lots/lookup answers: not ok throws; a BBL of the lots the handler
\* saw is refused; else the lot is appended and the step is "build"
StartSearchReturns(ok) ==
  /\ page.name = "start"
  /\ \E rq \in net :
       /\ rq.kind = "lookup"
       /\ IF ~ok
          THEN page' = [page EXCEPT !.searchError = "Property not found",
                          !.searchLoading = FALSE]
          ELSE IF rq.bbl \in rq.seen
          THEN page' = [page EXCEPT
                          !.searchError = "This property is already in your development site.",
                          !.searchLoading = FALSE]
          ELSE /\ page' = [page EXCEPT
                             !.lots = Append(page.lots, newLot(rq.bbl)),
                             !.step = "build", !.searchLoading = FALSE]
       /\ net' = net \ {rq}
  /\ UNCHANGED <<appVars, geomVars, backend>>

\* loadAdjacentLots up to its await: the button of step "build", disabled
\* while adjacentLoading; the target is the most recently added lot
loadAdjacentLots ==
  /\ page.name = "start"
  /\ page.step = "build"
  /\ ~page.adjacentLoading
  /\ page.lots # <<>>
  /\ page.sent < MaxRequests
  /\ page' = [page EXCEPT !.adjacentLoading = TRUE, !.adjacentOpen = TRUE,
                !.sent = page.sent + 1]
  /\ net' = net \cup {StartRequest("adjacent", page.lots[Len(page.lots)].bbl,
                                   BblsOf(page.lots), <<>>)}
  /\ UNCHANGED <<appVars, geomVars, backend>>

\* GET /lots/adjacent answers: the lots the handler saw are filtered out
StartAdjacentReturns(ok) ==
  /\ page.name = "start"
  /\ \E rq \in net :
       /\ rq.kind = "adjacent"
       /\ page' = [page EXCEPT
                     !.adjacentLots = IF ok THEN AdjacentOf(rq.bbl) \ rq.seen
                                      ELSE {},
                     !.adjacentLoading = FALSE]
       /\ net' = net \ {rq}
  /\ UNCHANGED <<appVars, geomVars, backend>>

\* addAdjacentLot: the Add button of a listed lot in the open panel
addAdjacentLot(bbl) ==
  /\ page.name = "start"
  /\ page.step = "build"
  /\ page.adjacentOpen
  /\ ~page.adjacentLoading
  /\ bbl \in page.adjacentLots
  /\ page' = [page EXCEPT !.lots = Append(page.lots, newLot(bbl)),
                !.adjacentLots = page.adjacentLots \ {bbl},
                !.adjacentOpen = FALSE]
  /\ UNCHANGED <<appVars, geomVars, net, backend>>

\* the Close button of the adjacent-lots panel
StartCloseAdjacent ==
  /\ page.name = "start"
  /\ page.step = "build"
  /\ page.adjacentOpen
  /\ page' = [page EXCEPT !.adjacentOpen = FALSE]
  /\ UNCHANGED <<appVars, geomVars, net, backend>>

\* removeLot: the trash button of a lot card
removeLot(bbl) ==
  /\ page.name = "start"
  /\ page.step = "build"
  /\ bbl \in BblsOf(page.lots)
  /\ page' = [page EXCEPT !.lots = WithoutBbl(page.lots, bbl),
                !.step = IF Len(page.lots) <= 1 THEN "search" ELSE page.step]
  /\ UNCHANGED <<appVars, geomVars, net, backend>>

\* toggleKeepBuilding: the switch of a lot card
toggleKeepBuilding(bbl) ==
  /\ page.name = "start"
  /\ page.step = "build"
  /\ bbl \in BblsOf(page.lots)
  /\ page' = [page EXCEPT !.lots =
                [i \in 1..Len(page.lots) |->
                   IF page.lots[i].bbl = bbl
                   THEN [page.lots[i] EXCEPT !.keepExistingBuilding =
                           ~page.lots[i].keepExistingBuilding]
                   ELSE page.lots[i]]]
  /\ UNCHANGED <<appVars, geomVars, net, backend>>

\* "Back" and "Search by Address" of step "build": setStep("search")
StartBackToSearch ==
  /\ page.name = "start"
  /\ page.step = "build"
  /\ page' = [page EXCEPT !.step = "search"]
  /\ UNCHANGED <<appVars, geomVars, net, backend>>

\* handleAnalyze up to its await: the button of step "build", disabled when
\* no lot is developed or while previewLoading
handleAnalyze ==
  /\ page.name = "start"
  /\ page.step = "build"
  /\ hasAtLeastOneDevelopment(page.lots)
  /\ ~page.previewLoading
  /\ page.sent < MaxRequests
  /\ page' = [page EXCEPT !.previewLoading = TRUE, !.previewError = "",
                !.sent = page.sent + 1]
  /\ net' = net \cup {StartRequest("preview", 0, {}, page.lots)}
  /\ UNCHANGED <<appVars, geomVars, backend>>

\* POST /reports/preview-assemblage answers; the preview is the analysis of
\* the lots and flags of the request body
StartAnalyzeReturns(ok) ==
  /\ page.name = "start"
  /\ \E rq \in net :
       /\ rq.kind = "preview"
       /\ page' = IF ok
                  THEN [page EXCEPT !.preview = AssemblagePreview(rq.lots),
                          !.step = "preview",
                          !.previewLoading = FALSE]
                  ELSE [page EXCEPT !.previewError = "Analysis failed",
                          !.previewLoading = FALSE]
       /\ net' = net \ {rq}
  /\ UNCHANGED <<appVars, geomVars, backend>>

\* "Edit" of step "preview": setStep("build")
StartBackToBuild ==
  /\ page.name = "start"
  /\ page.step = "preview"
  /\ page.preview.computed
  /\ page' = [page EXCEPT !.step = "build"]
  /\ UNCHANGED <<appVars, geomVars, net, backend>>

NextStart ==
  \/ \E bbl \in BBLs : StartSearch(bbl)
  \/ \E ok \in BOOLEAN : StartSearchReturns(ok)
  \/ loadAdjacentLots
  \/ \E ok \in BOOLEAN : StartAdjacentReturns(ok)
  \/ \E bbl \in BBLs : addAdjacentLot(bbl)
  \/ StartCloseAdjacent
  \/ \E bbl \in BBLs : removeLot(bbl)
  \/ \E bbl \in BBLs : toggleKeepBuilding(bbl)
  \/ StartBackToSearch
  \/ handleAnalyze
  \/ \E ok \in BOOLEAN : StartAnalyzeReturns(ok)
  \/ StartBackToBuild

SpecStart == InitStart /\ [][NextStart]_vars

\* ------------------------------------------------------------------ claims
\* C1: every change of the active scenario index (scenario selector or the
\* ?scenario= preselect after a payload arrived) leaves selectedFloor and
\* hoveredFloor null.
C1_ActiveChangeClearsFloors ==
  [][activeScenario' # activeScenario
       => (selectedFloor' = NoFloor /\ hoveredFloor' = NoFloor)]_vars

\* C2: in comparison mode, with at least two scenarios in the payload, the
\* two scenarios rendered side by side have distinct indices.
C2_ComparisonDistinct ==
  (Screen = "main" /\ comparisonMode /\ Len(Scenarios) >= 2) => scA # scB

\* C3: when the comparison target equals the active index, building B shows
\* scenario 0, or scenario 1 when the active index is 0.
C3_EqualTargetFallsBack ==
  (Screen = "main" /\ comparisonMode /\ Len(Scenarios) >= 2
     /\ comparisonScenario = activeScenario)
    => scB = (IF activeScenario = 0 THEN 1 ELSE 0)

\* C6: a floor with a valid footprint and height_ft > GAP yields a solid whose
\* vertical span is height_ft - GAP and whose base lies at elevation_ft +
\* GAP / 2; height 15 ft at elevation 0 occupies [0.15, 14.85].
C6_FloorSpan ==
  (props.component = "FloorMesh" /\ rendered.done
     /\ Len(props.floor.footprint) >= 3 /\ props.floor.height_ft > 30)
    => \E e \in rendered.elements :
         /\ e.kind = "floorSolid"
         /\ e.depth = props.floor.height_ft - 30
         /\ e.y = props.floor.elevation_ft + 15
         /\ (props.floor.height_ft = 1500 /\ props.floor.elevation_ft = 0)
              => (e.y = 15 /\ e.y + e.depth = 1485)

C6_Witness ==
  /\ props.component = "FloorMesh"
  /\ rendered.done
  /\ props.floor.height_ft = 1500
  /\ props.floor.elevation_ft = 0
  /\ \E e \in rendered.elements : e.kind = "floorSolid"

\* C7: in single view a pointer-enter on floor B while floor A is still
\* entered (no pointer-leave in between) leaves hoveredFloor referring to B.
C7_HoverLastWriteWins ==
  [][(~comparisonMode /\ localHover # {})
       => \A b \in localHover' \ localHover : hoveredFloor' = FloorRef(b)]_vars

C7_Witness ==
  /\ Screen = "main"
  /\ ~comparisonMode
  /\ localHover = {<<"S", 0>>, <<"S", 1>>}
  /\ hoveredFloor = FloorRef(<<"S", 1>>)

\* C8: in comparison mode no click, pointer-enter or pointer-leave on a floor
\* of either building changes selectedFloor or hoveredFloor.
C8_ComparisonReadOnly ==
  [][(comparisonMode
        /\ UNCHANGED <<massingData, loading, error, activeScenario,
                       comparisonMode, comparisonScenario>>
        /\ \E k \in PointerKeys :
              FloorClick(k) \/ PointerEnter(k) \/ PointerLeave(k))
       => UNCHANGED <<selectedFloor, hoveredFloor>>]_vars

C8_Witness ==
  /\ Screen = "main"
  /\ comparisonMode
  /\ <<"A", 0>> \in localHover
  /\ <<"B", 0>> \in localHover
  /\ hoveredFloor = NoFloor
  /\ selectedFloor = NoFloor

\* C9: a step that changes a display option (show envelope, show lot
\* boundary, show setbacks, show floor labels, comparison mode) changes that
\* one flag only: the payload, the active and comparison indices,
\* selectedFloor, hoveredFloor and the other flags keep their values.
DisplayFlags ==
  <<showEnvelope, showLotBoundary, showSetbacks, showFloorLabels,
    comparisonMode>>

C9_ToggleFrame ==
  [][\A f \in 1..5 :
       DisplayFlags[f]' # DisplayFlags[f]
         => /\ \A g \in (1..5) \ {f} : DisplayFlags[g]' = DisplayFlags[g]
            /\ UNCHANGED <<massingData, activeScenario, comparisonScenario,
                           selectedFloor, hoveredFloor>>]_vars

C9_Witness ==
  /\ showEnvelope
  /\ ~showLotBoundary
  /\ ~showSetbacks
  /\ showFloorLabels
  /\ comparisonMode
  /\ massingData = "sample"
  /\ activeScenario = 2
  /\ selectedFloor # NoFloor
  /\ hoveredFloor # NoFloor

\* C4: the base-height overlay (plane and boundary line) is produced if and
\* only if base_height_max_ft is present and 0 < base_height_max_ft <
\* max_height_ft.
C4_BaseOverlayIff ==
  (props.component = "ZoningEnvelope" /\ rendered.done)
    => LET e == props.envelope
       IN ({"baseHeightPlane", "baseHeightBorder"} \subseteq Kinds(rendered)
             <=> (e.base_height_max_ft # Undefined
                    /\ 0 < e.base_height_max_ft
                    /\ e.max_height_ft # Undefined
                    /\ e.base_height_max_ft < e.max_height_ft))

\* C5: with a setback_line of at least 2 points and base_height_max_ft unset,
\* the setback line at grade, the max-height plane and the four vertical
\* corner edges are produced, and neither a setback line at base height, nor
\* its connecting vertical edge, nor a base-height plane.
C5_SetbackWithoutBase ==
  (props.component = "ZoningEnvelope" /\ rendered.done
     /\ Len(props.envelope.setback_line) >= 2
     /\ props.envelope.base_height_max_ft = Undefined)
    => /\ {"setbackAtGrade", "maxHeightPlane"} \subseteq Kinds(rendered)
       /\ Cardinality({e \in rendered.elements : e.kind = "verticalEdge"}) = 4
       /\ Kinds(rendered) \cap
            {"setbackAtBase", "setbackVertical", "baseHeightPlane"} = {}

\* C10: the floor tooltip is shown exactly when hoveredFloor is non-null and
\* selectedFloor is null.
C10_TooltipExact ==
  TooltipShown <=> (hoveredFloor # NoFloor /\ selectedFloor = NoFloor)


\* the kinds of element in a set of elements
KindsOf(elements) == {e.kind : e \in elements}

SetbackKinds == {"setbackAtGrade", "setbackAtBase", "setbackVertical"}

\* C13: when the bulkhead, the zoning envelope, the setback line or the sky
\* exposure plane of a scenario is absent, its visual is not produced and
\* every other visual is produced exactly as it was with the substructure
\* present.
C13_AbsentSubstructureSkipped ==
  [][(props.component = "MassingScene" /\ rendered.done /\ rendered'.done)
       => LET old == props.scenario
              new == props'.scenario
              s == rendered.scene
              t == rendered'.scene
              Others(es, kinds) == {e \in es : e.kind \notin kinds}
          IN /\ (old.bulkhead.present /\ ~new.bulkhead.present)
                  => /\ t.building.bulkhead = {}
                     /\ t.building.floors = s.building.floors
                     /\ t.lot = s.lot
                     /\ t.envelope = s.envelope
             /\ (old.zoning_envelope.present /\ ~new.zoning_envelope.present)
                  => /\ t.envelope = {}
                     /\ t.building = s.building
                     /\ t.lot = s.lot
             /\ (old.zoning_envelope.present /\ new.zoning_envelope.present
                   /\ old.zoning_envelope.setback_line # <<>>
                   /\ new.zoning_envelope.setback_line = <<>>)
                  => /\ KindsOf(t.envelope) \cap SetbackKinds = {}
                     /\ t.envelope = Others(s.envelope, SetbackKinds)
                     /\ t.building = s.building
                     /\ t.lot = s.lot
             /\ (old.zoning_envelope.present /\ new.zoning_envelope.present
                   /\ old.zoning_envelope.sky_exposure_plane.present
                   /\ ~new.zoning_envelope.sky_exposure_plane.present)
                  => /\ "skyExposurePlane" \notin KindsOf(t.envelope)
                     /\ t.envelope = Others(s.envelope, {"skyExposurePlane"})
                     /\ t.building = s.building
                     /\ t.lot = s.lot]_vars

\* a scene rendered with the envelope checkbox on for a scenario that has
\* lost its bulkhead, its setback line and its sky exposure plane
C13_Witness ==
  /\ props.component = "MassingScene"
  /\ rendered.done
  /\ props.showEnvelope
  /\ props.showLotBoundary
  /\ ~props.scenario.bulkhead.present
  /\ props.scenario.zoning_envelope.present
  /\ props.scenario.zoning_envelope.setback_line = <<>>
  /\ ~props.scenario.zoning_envelope.sky_exposure_plane.present
  /\ rendered.scene.building.bulkhead = {}
  /\ "maxHeightPlane" \in KindsOf(rendered.scene.envelope)
  /\ "skyExposurePlane" \notin KindsOf(rendered.scene.envelope)
  /\ Len(rendered.scene.building.floors) = 3


\* C14: no 3D scene (single or comparison) is composed while there is no
\* payload or the payload has no scenarios; in those states, and while the
\* load is in progress or has failed, only the loading, error or no-data
\* screen is shown.
C14_SceneNeedsScenarios ==
  (massingData = NoPayload \/ Len(Scenarios) = 0 \/ loading \/ error # NoError)
    => /\ Buildings = {}
       /\ MountedKeys = {}
       /\ Screen \in {"loading", "error", "nodata"}
       /\ (loading => Screen = "loading")
       /\ (~loading /\ error # NoError => Screen = "error")

\* the scene was on screen (a floor was selected) and the parent window then
\* delivered a payload without scenarios
C14_Witness ==
  /\ ~loading
  /\ error = NoError
  /\ massingData = "empty"
  /\ selectedFloor # NoFloor
  /\ Screen = "nodata"


\* C15: once the load has ended exactly one outcome holds: a payload is
\* present and no error is set, or an error is set and no payload is present,
\* whichever of the hash, the demo data, the fetch and the parent's message
\* delivers, and in whatever order.
C15_LoadTriState ==
  ~loading
    => \/ (massingData # NoPayload /\ error = NoError)
       \/ (error # NoError /\ massingData = NoPayload)


\* C16 (as stated): the building has exactly one solid per floor with a valid
\* footprint, bound to that floor's number, elevation and height and colored
\* by the palette entry of its use (gray for a use outside the palette), plus
\* exactly one bulkhead solid if and only if the scenario has a bulkhead;
\* a one-floor commercial scenario yields exactly one solid, in the
\* commercial color.
C16_OneSolidPerFloor ==
  (props.component = "MassingScene" /\ rendered.done) =>
    LET floors == props.scenario.floors
        bulkhead == props.scenario.bulkhead
        b == rendered.scene.building
        Solids(es) == {e \in es : e.kind = "floorSolid"}
        Palette(use) == CASE use = "commercial" -> "#4A90D9"
                          [] use = "residential" -> "#F5E6CC"
                          [] use = "storage" -> "#cccccc"
    IN /\ Len(b.floors) = Len(floors)
       /\ \A i \in 1..Len(floors) :
            Len(floors[i].footprint) >= 3
              => /\ Cardinality(Solids(b.floors[i])) = 1
                 /\ \A e \in Solids(b.floors[i]) :
                      /\ e.floor_num = floors[i].floor_num
                      /\ e.y = floors[i].elevation_ft + 15
                      /\ e.depth = floors[i].height_ft - 30
                      /\ e.color = Palette(floors[i].use)
       /\ Cardinality({e \in b.bulkhead : e.kind = "bulkheadSolid"})
            = (IF bulkhead.present THEN 1 ELSE 0)
       /\ (Len(floors) = 1 /\ floors[1].use = "commercial"
             /\ Len(floors[1].footprint) >= 3)
            => \E e \in b.floors[1] :
                 /\ Solids(b.floors[1]) = {e}
                 /\ e.color = "#4A90D9"

\* C16 (amended): the building has exactly one solid per floor with a valid
\* footprint, bound to that floor's number, elevation and height and colored
\* by the palette entry of its use (gray for a use outside the palette), plus
\* exactly one bulkhead solid if and only if the scenario has a bulkhead
\* whose footprint has at least 3 points;
\* a one-floor commercial scenario yields exactly one solid, in the
\* commercial color.
C16_OneSolidPerValidFootprint ==
  (props.component = "MassingScene" /\ rendered.done) =>
    LET floors == props.scenario.floors
        bulkhead == props.scenario.bulkhead
        b == rendered.scene.building
        Solids(es) == {e \in es : e.kind = "floorSolid"}
        Palette(use) == CASE use = "commercial" -> "#4A90D9"
                          [] use = "residential" -> "#F5E6CC"
                          [] use = "storage" -> "#cccccc"
    IN /\ Len(b.floors) = Len(floors)
       /\ \A i \in 1..Len(floors) :
            Len(floors[i].footprint) >= 3
              => /\ Cardinality(Solids(b.floors[i])) = 1
                 /\ \A e \in Solids(b.floors[i]) :
                      /\ e.floor_num = floors[i].floor_num
                      /\ e.y = floors[i].elevation_ft + 15
                      /\ e.depth = floors[i].height_ft - 30
                      /\ e.color = Palette(floors[i].use)
       /\ Cardinality({e \in b.bulkhead : e.kind = "bulkheadSolid"})
            = (IF bulkhead.present /\ Len(bulkhead.footprint) >= 3 THEN 1 ELSE 0)
       /\ (Len(floors) = 1 /\ floors[1].use = "commercial"
             /\ Len(floors[1].footprint) >= 3)
            => \E e \in b.floors[1] :
                 /\ Solids(b.floors[1]) = {e}
                 /\ e.color = "#4A90D9"

C16_Witness ==
  /\ props.component = "MassingScene"
  /\ rendered.done
  /\ Len(props.scenario.floors) = 1
  /\ props.scenario.floors[1].use = "commercial"
  /\ props.scenario.bulkhead.present
  /\ Cardinality(rendered.scene.building.floors[1]) >= 2
  /\ \E e \in rendered.scene.building.bulkhead : e.kind = "bulkheadSolid"


\* C17: a single pointer event (click, pointer-enter or pointer-leave) whose
\* ray goes through several overlapping floor solids runs the callback of
\* exactly one floor, the nearest: at most one hover flag changes per event
\* and, in the single view, only the nearest floor is selected or hovered.
C17_OneFloorPerEvent ==
  [][UNCHANGED <<massingData, activeScenario, comparisonMode,
                 comparisonScenario, loading, error>>
       => /\ Cardinality(localHover' \ localHover) <= 1
          /\ Cardinality(localHover \ localHover') <= 1
          /\ ~comparisonMode
               => \A ray \in Rays :
                    /\ RayClick(ray)
                         => selectedFloor'
                              = onFloorClick(ray[1][1], FloorRef(ray[1]))
                    /\ RayEnter(ray)
                         => /\ localHover' \ localHover = {ray[1]}
                            /\ hoveredFloor' = onHover(ray[1], TRUE)
                    /\ RayLeave(ray)
                         => localHover \ localHover' = {ray[1]}]_vars

\* two solids lie on one ray of the single view; the nearer one alone is
\* hovered and selected
C17_Witness ==
  /\ ~comparisonMode
  /\ {<<"S", 0>>, <<"S", 1>>} \subseteq PointerKeys
  /\ localHover = {<<"S", 1>>}
  /\ hoveredFloor = FloorRef(<<"S", 1>>)
  /\ selectedFloor = FloorRef(<<"S", 1>>)


\* C18: a floor solid is drawn highlighted exactly when its own hover flag is
\* set or, in the single view, its floor_num equals that of the globally
\* hovered floor; in comparison mode, where no hovered floor is handed down,
\* the highlight follows the solid's own flag alone.
C18_HighlightLocalOrGlobal ==
  \A k \in MountedKeys :
    HasMesh(k) =>
      LET drawn == meshStandardMaterial(k)
          lit == /\ drawn.transparent
                 /\ drawn.opacity = 85
                 /\ drawn.emissive = "#ffffff"
                 /\ drawn.emissiveIntensity = 15
          plain == /\ ~drawn.transparent
                   /\ drawn.opacity = 100
                   /\ drawn.emissive = "#000000"
                   /\ drawn.emissiveIntensity = 0
          own == k \in localHover
          global == /\ hoveredFloor # NoFloor
                    /\ FloorData(hoveredFloor).floor_num
                         = FloorsOf(k[1])[k[2] + 1].floor_num
      IN /\ lit \/ plain
         /\ comparisonMode => (lit <=> own)
         /\ ~comparisonMode => (lit <=> (own \/ global))

\* a solid of the single view is highlighted through the globally hovered
\* floor alone, while another solid carries the hover flag
C18_Witness ==
  /\ Screen = "main"
  /\ ~comparisonMode
  /\ \E k \in MountedKeys :
       /\ HasMesh(k)
       /\ k \notin localHover
       /\ localHover # {}
       /\ meshStandardMaterial(k).transparent


\* C19: in the single view a click on floor F sets selectedFloor to F whatever
\* it was before, and a second click on F changes nothing; no hover event
\* changes selectedFloor; a selection is cleared only when the active scenario
\* is switched (or the page is reloaded).
C19_SelectionSticky ==
  [][/\ (~comparisonMode
           /\ UNCHANGED <<massingData, activeScenario, hoveredFloor,
                          localHover, comparisonMode, loading, error>>)
          => \A k \in PointerKeys :
               FloorClick(k)
                 => /\ selectedFloor' = FloorRef(k)
                    /\ selectedFloor = FloorRef(k) => UNCHANGED vars
     /\ (localHover' # localHover
           /\ UNCHANGED <<massingData, activeScenario, comparisonMode,
                          comparisonScenario, loading, error>>)
          => selectedFloor' = selectedFloor
     /\ (selectedFloor # NoFloor /\ selectedFloor' = NoFloor)
          => (activeScenario' # activeScenario \/ loading')]_vars

\* floor 1 stays selected while the pointer is over floor 2
C19_Witness ==
  /\ Screen = "main"
  /\ ~comparisonMode
  /\ {<<"S", 0>>, <<"S", 1>>} \subseteq PointerKeys
  /\ selectedFloor = FloorRef(<<"S", 0>>)
  /\ hoveredFloor = FloorRef(<<"S", 1>>)
  /\ localHover = {<<"S", 1>>}


\* C20: in comparison mode, after any sequence of scenario selections and
\* payload replacements, both scenarios rendered resolve to an existing
\* scenario of the payload, and the view never dereferences an undefined
\* scenario.
C20_ComparisonResolves ==
  /\ ~crashed
  /\ (~loading /\ error = NoError /\ Len(Scenarios) > 0 /\ comparisonMode)
       => (InRange(scA) /\ InRange(scB))


\* C21: every floor solid produced has a strictly positive vertical span; a
\* floor whose height_ft does not exceed the gap (0.3 ft) yields no solid.
C21_PositiveSpan ==
  (props.component = "FloorMesh" /\ rendered.done)
    => /\ \A e \in rendered.elements : e.kind = "floorSolid" => e.depth > 0
       /\ props.floor.height_ft <= 30
            => "floorSolid" \notin {e.kind : e \in rendered.elements}


\* C22: in the single view each display toggle alone decides whether its
\* visual is rendered: the setback-yard shading iff showSetbacks, the lot
\* boundary iff showLotBoundary, the floor labels iff showFloorLabels, the
\* envelope overlay iff showEnvelope and the scenario has a zoning envelope,
\* whatever the other toggles are.
C22_TogglesIndependent ==
  (props.component = "MassingScene" /\ rendered.done) =>
    LET s == rendered.scene
        floors == props.scenario.floors
    IN /\ ({"rearYardLine", "rearYardFill"} \subseteq KindsOf(s.lot))
            <=> props.showSetbacks
       /\ ({"rearYardLine", "rearYardFill"} \cap KindsOf(s.lot) # {})
            <=> props.showSetbacks
       /\ ({"lotBoundary", "lotFill"} \subseteq KindsOf(s.lot))
            <=> props.showLotBoundary
       /\ \A i \in 1..Len(floors) :
            Len(floors[i].footprint) >= 3
              => ("floorLabel" \in KindsOf(s.building.floors[i])
                    <=> props.showFloorLabels)
       /\ (s.envelope # {})
            <=> (props.showEnvelope /\ props.scenario.zoning_envelope.present)


\* C23: every scenario of the built-in demo payload (shown when no BBL is
\* given) lists its floors by ascending floor_num with non-decreasing
\* elevation_ft, each floor starts exactly where the one below ends, every
\* height_ft exceeds the gap, and net_area_sf <= gross_area_sf.
C23_DemoScenarioInvariant ==
  (massingData = "demo" /\ fetchState = "none") =>
    \A b \in Buildings :
      LET floors == FloorsOf(b)
      IN /\ Len(floors) > 0
         /\ \A i \in 1..Len(floors) :
              /\ floors[i].height_ft > 30
              /\ floors[i].net_area_sf <= floors[i].gross_area_sf
         /\ \A i \in 1..(Len(floors) - 1) :
              /\ floors[i].floor_num < floors[i + 1].floor_num
              /\ floors[i].elevation_ft <= floors[i + 1].elevation_ft
              /\ floors[i].elevation_ft + floors[i].height_ft
                   = floors[i + 1].elevation_ft

\* the demo payload is on screen, all eight floors mounted, and the pointer
\* is over its second floor, which starts where the ground floor ends
C23_Witness ==
  /\ massingData = "demo"
  /\ fetchState = "none"
  /\ Buildings = {"S"}
  /\ Cardinality(MountedKeys) = 8
  /\ FloorsOf("S")[8].elevation_ft = 7500
  /\ localHover = {<<"S", 1>>}
  /\ hoveredFloor = FloorRef(<<"S", 1>>)
  /\ FloorData(hoveredFloor).elevation_ft = 1500


\* C24: the slope of the projected sky exposure plane is the value the
\* payload supplies under slope or under ratio; the default slope 2.7 and the
\* default start height 60 ft are used only when the payload supplies none.
C24_SuppliedSlopeUsed ==
  (props.component = "ZoningEnvelope" /\ rendered.done
     /\ props.envelope.sky_exposure_plane.present)
    => LET sep == props.envelope.sky_exposure_plane
           d == IF props.lot.depth_ft = Undefined THEN 10000
                ELSE props.lot.depth_ft
           usedSlope == IF sep.slope # Undefined THEN sep.slope
                        ELSE IF sep.ratio # Undefined THEN sep.ratio
                        ELSE 270
           usedStart == IF sep.start_height # Undefined THEN sep.start_height
                        ELSE 6000
           rise == usedStart + (d * usedSlope) \div 100
       IN \A e \in rendered.elements :
            e.kind = "skyExposurePlane"
              => /\ e.points[1][2] = usedStart
                 /\ e.points[3][2] = (IF rise <= 30000 THEN rise ELSE 30000)


\* C25: in the single view, while floor B has received pointer-enter and not
\* yet pointer-leave and hoveredFloor refers to B, the pointer-leave of
\* another floor A, delivered after B's pointer-enter, leaves hoveredFloor on
\* B.
C25_LeaveKeepsOtherHover ==
  [][(/\ ~comparisonMode
      /\ UNCHANGED <<massingData, activeScenario, comparisonMode, loading,
                     error>>
      /\ localHover' # localHover
      /\ localHover' \subseteq localHover
      /\ \E b \in localHover' : hoveredFloor = FloorRef(b))
       => hoveredFloor' = hoveredFloor]_vars


\* C26: a non-null selectedFloor or hoveredFloor is always a floor of the
\* scenario currently displayed, of the current payload.
C26_FloorRefsCurrent ==
  \A ref \in {selectedFloor, hoveredFloor} :
    ref # NoFloor
      => /\ ref.payload = massingData
         /\ ref.scenario = currentScenario


\* C27: once a generate request has returned a report id, while the step is
\* "generating" a status poll of that report is in flight or scheduled.
C27_PollingNeverStops ==
  (page.name = "checkout" /\ page.step = "generating"
     /\ page.reportId # 0
     /\ ~(\E rq \in net : rq.kind = "generate"))
    => \E rq \in net : rq.kind \in {"poll", "timer"} /\ rq.id = page.reportId


\* C28: on the new-report page, whenever the step is "complete" the report
\* named by reportId has status "completed" and was generated from the
\* preview on display; at most one polling chain is active at a time.
C28_CompleteMatchesPreview ==
  page.name = "newReport"
    => /\ Cardinality({rq \in net : rq.kind \in {"poll", "timer"}}) <= 1
       /\ page.step = "complete"
            => /\ page.reportId # 0
               /\ backend[page.reportId].status = "completed"
               /\ backend[page.reportId].preview = page.preview


\* C29: on the start page the lots list never holds two entries with the
\* same BBL, and in step "build" the lots list is never empty.
C29_NoDuplicateBbl ==
  page.name = "start"
    => /\ \A i, j \in 1..Len(page.lots) :
            page.lots[i].bbl = page.lots[j].bbl => i = j
       /\ page.step = "build" => page.lots # <<>>

\* C30: on the start page, whenever the step is "preview" the preview on
\* display was computed from exactly the current lots and keep flags, the
\* list is not empty and some lot is designated for development.
C30_PreviewOfCurrentLots ==
  (page.name = "start" /\ page.step = "preview")
    => /\ page.preview = AssemblagePreview(page.lots)
       /\ page.lots # <<>>
       /\ hasAtLeastOneDevelopment(page.lots)

====
